---- MODULE Spec2Model ----
(***************************************************************************)
(* naga_oil_cli: src/main.rs.                                              *)
(*                                                                         *)
(* Three specifications over one set of variables:                         *)
(*   HarvestSpec  the "gather modules" loop of main (lines 150-179)        *)
(*   Spec         main from the target shader's import list onwards:       *)
(*                the "add required imports" loop, the composer run and    *)
(*                the output stage (lines 181-343)                         *)
(*   DefsSpec     gather_defs / parse_def_value as pure functions          *)
(* The composition engine (naga_oil::compose::Composer) is external: it is *)
(* the set of module names it holds, queried by contains_module and grown  *)
(* by add_composable_module, which is taken to accept every module whose   *)
(* imports it already holds.                                               *)
(***************************************************************************)
EXTENDS Integers, Sequences, FiniteSets, TLC

VARIABLES
    includes,        \* HashMap name -> (reqs, path, language, source)
    \* ---- gather modules ----
    cli_include,     \* cli.include : Vec<String>
    declared,        \* file system: the name each module file declares
    include_paths,   \* the stack of paths still to visit
    visited,         \* history: every path popped, in order
    registered,      \* history: (path, name) of every includes.insert, in order
    warnings,        \* stderr: names of the duplicate-definition warnings
    hpc,             \* "gather" | "done" | "panic_dir" | "panic_file" | "idle"
    \* ---- add required imports, composer, output ----
    cli_shader,      \* cli.shader : PathBuf
    imports,         \* history: the target shader's own import list
    reqs,            \* HashSet<String> reqs
    next_reqs,       \* HashSet<String> next_reqs
    todo,            \* the part of reqs the for loop has not visited yet
    composer,        \* the module names the composer holds
    added,           \* history: the add_composable_module calls, in order
    addedInRound,    \* history: modules added in the current round
    seen,            \* history: names pending in some earlier round
    pc,              \* "while" | "for" | "compose" | "output" | "done" | "idle"
    outcome,         \* how main ended
    missing_name,    \* the name in "required import {} not found"
    stuck,           \* the set in "circular dependency: {:?}"
    exit_code,       \* process exit status (101 = panic)
    diagnostic,      \* whether the composer's diagnostic was printed
    target,          \* "unopened" | "file" | "stdout"
    output_format,   \* "none" | "wgsl" | "glsl" | "naga" | "spv"
    validated,       \* whether the validator has run
    written,         \* "nothing" | "file" | "stdout"
    \* ---- gather_defs ----
    cli_defs,        \* cli.defs : Vec<String>
    cli_additional_defs, \* cli.additional_defs : Vec<String>
    shader_defs,     \* result of gather_defs
    dpc              \* "call" | "returned" | "panic" | "idle"

harvestVars == <<cli_include, declared, include_paths, visited, registered, warnings, hpc>>
resolveVars == <<cli_shader, imports, reqs, next_reqs, todo, composer, added,
                 addedInRound, seen, pc, outcome, missing_name, stuck>>
outputVars  == <<exit_code, diagnostic, target, output_format, validated, written>>
defsVars    == <<cli_defs, cli_additional_defs, shader_defs, dpc>>
vars == <<includes, harvestVars, resolveVars, outputVars, defsVars>>

(***************************************************************************)
(* Bounds                                                                  *)
(***************************************************************************)
MaxSubreqs == 2     \* requirements per registered module
MaxImports == 2     \* imports of the target shader
MaxRoots   == 2     \* entries of cli.include
MaxDefArgs == 2     \* entries of cli.defs, and of cli.additional_defs

Names == {"A", "B", "C"}

BoundedSubsets(S, n) == {T \in SUBSET S : Cardinality(T) <= n}

Range(s) == {s[i] : i \in 1..Len(s)}

(***************************************************************************)
(* Strings are sequences of one-character strings.                         *)
(***************************************************************************)
Upper == <<"A","B","C","D","E","F","G","H","I","J","K","L","M",
           "N","O","P","Q","R","S","T","U","V","W","X","Y","Z">>
Lower == <<"a","b","c","d","e","f","g","h","i","j","k","l","m",
           "n","o","p","q","r","s","t","u","v","w","x","y","z">>
Digits == <<"0","1","2","3","4","5","6","7","8","9">>

LowerOf == [c \in Range(Upper) |-> Lower[CHOOSE i \in 1..26 : Upper[i] = c]]

\* char::to_lowercase on ASCII
LowerChar(c) == IF c \in DOMAIN LowerOf THEN LowerOf[c] ELSE c

\* str::to_lowercase
to_lowercase(s) == [i \in 1..Len(s) |-> LowerChar(s[i])]

IsSpace(c) == c \in {" ", "\t", "\n"}

RECURSIVE trim_start(_)
trim_start(s) ==
    IF s # <<>> /\ IsSpace(Head(s)) THEN trim_start(Tail(s)) ELSE s

RECURSIVE trim_end(_)
trim_end(s) ==
    IF s # <<>> /\ IsSpace(s[Len(s)])
    THEN trim_end(SubSeq(s, 1, Len(s) - 1))
    ELSE s

\* str::trim
trim(s) == trim_end(trim_start(s))

RECURSIVE FirstIndexFrom(_, _, _)
FirstIndexFrom(s, c, i) ==
    IF i > Len(s) THEN 0
    ELSE IF s[i] = c THEN i
    ELSE FirstIndexFrom(s, c, i + 1)

\* index of the first occurrence of character c in s, 0 when there is none
FirstIndex(s, c) == FirstIndexFrom(s, c, 1)

\* str::split(c): the pieces between the occurrences of c, empty ones kept
RECURSIVE split(_, _)
split(s, c) ==
    LET i == FirstIndex(s, c)
    IN IF i = 0
       THEN <<s>>
       ELSE <<SubSeq(s, 1, i - 1)>> \o split(SubSeq(s, i + 1, Len(s)), c)

\* args.iter().flat_map(|arg| arg.split(';'))
RECURSIVE flat_split(_, _)
flat_split(args, c) ==
    IF args = <<>> THEN <<>>
    ELSE split(Head(args), c) \o flat_split(Tail(args), c)

(***************************************************************************)
(* shader_type, input_language (lines 131-145)                             *)
(***************************************************************************)
NoExtension == <<"-">>      \* Path::extension() = None

RECURSIVE LastIndexFrom(_, _, _)
LastIndexFrom(s, c, i) ==
    IF i = 0 THEN 0
    ELSE IF s[i] = c THEN i
    ELSE LastIndexFrom(s, c, i - 1)

\* index of the last occurrence of character c in s, 0 when there is none
LastIndex(s, c) == LastIndexFrom(s, c, Len(s))

\* Path::extension: the text after the last '.' of the last component
extension(path) ==
    LET parts == split(path, "/")
        file == parts[Len(parts)]
        i == LastIndex(file, ".")
    IN IF i <= 1 THEN NoExtension
       ELSE SubSeq(file, i + 1, Len(file))

Str_wgsl == <<"w","g","s","l">>
Str_vert == <<"v","e","r","t">>
Str_frag == <<"f","r","a","g">>

\* a shader_type that accepts every extension as wgsl
shader_type_mut(path) ==
    LET v == extension(path)
    IN IF v = NoExtension THEN "None"
       ELSE "Wgsl"

shader_type(path) ==
    LET v == extension(path)
    IN IF v = NoExtension THEN "None"
       ELSE IF to_lowercase(v) = Str_wgsl THEN "Wgsl"
       ELSE IF to_lowercase(v) = Str_vert THEN "GlslVertex"
       ELSE IF to_lowercase(v) = Str_frag THEN "GlslFragment"
       ELSE "None"

input_language(path) ==
    LET ty == shader_type(path)
    IN IF ty = "None" THEN "None"
       ELSE IF ty = "Wgsl" THEN "Wgsl"
       ELSE "Glsl"

(***************************************************************************)
(* parse_def_value, gather_defs (lines 103-129)                            *)
(* ShaderDefValue::Bool(b) is [tag |-> "Bool", val |-> 1 or 0],            *)
(* Int(n) is [tag |-> "Int", val |-> n], UInt(n) is [tag |-> "UInt", ...]. *)
(***************************************************************************)
\* i32::MAX; the digit strings of the model stay far below u32::MAX, the
\* bound of parse::<u32>, which no value of the model's 32-bit integers reaches
I32Max == 2147483647
I32Min == (0 - I32Max) - 1

Bool(b)  == [tag |-> "Bool", val |-> IF b THEN 1 ELSE 0]
Int32(n) == [tag |-> "Int",  val |-> n]
UInt(n)  == [tag |-> "UInt", val |-> n]
ParseError == [tag |-> "Err", val |-> 0]   \* the unwrap() of a failed parse

DigitOf == [c \in Range(Digits) |-> (CHOOSE i \in 1..10 : Digits[i] = c) - 1]

IsDigit(c) == c \in DOMAIN DigitOf
DigitVal(c) == DigitOf[c]

\* value of a non-empty digit string, -1 when s is empty or holds a non-digit
RECURSIVE ParseDigits(_)
ParseDigits(s) ==
    IF s = <<>> \/ ~IsDigit(s[Len(s)]) THEN -1
    ELSE IF Len(s) = 1 THEN DigitVal(s[1])
    ELSE LET hi == ParseDigits(SubSeq(s, 1, Len(s) - 1))
         IN IF hi < 0 THEN -1 ELSE 10 * hi + DigitVal(s[Len(s)])

\* str::parse::<u32>: an optional '+', then digits
parse_u32(s) ==
    LET digits == IF s # <<>> /\ Head(s) = "+" THEN Tail(s) ELSE s
        n == ParseDigits(digits)
    IN IF n < 0 THEN ParseError ELSE UInt(n)

\* str::parse::<i32>: an optional '+' or '-', then digits, within i32
parse_i32(s) ==
    LET neg == s # <<>> /\ Head(s) = "-"
        digits == IF s # <<>> /\ Head(s) \in {"+", "-"} THEN Tail(s) ELSE s
        n == ParseDigits(digits)
        v == IF neg THEN 0 - n ELSE n
    IN IF n < 0 \/ v < I32Min \/ v > I32Max THEN ParseError ELSE Int32(v)

Str_true  == <<"t","r","u","e">>
Str_false == <<"f","a","l","s","e">>

parse_def_value(v) ==
    LET other == to_lowercase(trim(v))
    IN IF other = Str_true THEN Bool(TRUE)
       ELSE IF other = Str_false THEN Bool(FALSE)
       ELSE IF other # <<>> /\ other[Len(other)] = "u"
            THEN parse_u32(SubSeq(other, 1, Len(other) - 1))
            ELSE parse_i32(other)

\* an insert that keeps the entry already present
insert_mut(map, k, v) ==
    [x \in DOMAIN map \cup {k} |-> IF x \in DOMAIN map THEN map[x] ELSE v]

\* HashMap::insert
insert(map, k, v) ==
    [x \in DOMAIN map \cup {k} |-> IF x = k THEN v ELSE map[x]]

EmptyMap == [x \in {} |-> 0]

\* def.split_once('='): the name and value of one entry
def_name(def) ==
    LET i == FirstIndex(def, "=")
    IN IF i = 0 THEN def ELSE SubSeq(def, 1, i - 1)

def_value(def) ==
    LET i == FirstIndex(def, "=")
    IN IF i = 0 THEN Bool(TRUE)
       ELSE parse_def_value(SubSeq(def, i + 1, Len(def)))

\* the for loop of gather_defs over the entries, from the map so far; a
\* failed parse aborts the process: [ok |-> FALSE]
RECURSIVE insert_defs(_, _)
insert_defs(defs, entries) ==
    IF entries = <<>> THEN [ok |-> TRUE, defs |-> defs]
    ELSE LET def == Head(entries)
             value == def_value(def)
         IN IF value = ParseError
            THEN [ok |-> FALSE, defs |-> defs]
            ELSE insert_defs(insert(defs, def_name(def), value), Tail(entries))

\* a chain in the opposite order
chain_mut(args, add) == add \o args

\* args.iter().chain(add)
chain(args, add) == args \o add

gather_defs(args, add) ==
    insert_defs(EmptyMap, flat_split(chain(args, add), ";"))

\* the definition strings the model draws cli.defs and cli.additional_defs from
DefPool == {
    <<"F","O","O">>,
    <<"B","A","R","=","1">>,
    <<"B","A","R","=","2","u">>,
    <<"F","O","O","=","F","a","l","s","e",";","B","A","R","=","-","7">>,
    <<"B","A","R","="," ","T","R","U","E"," ",";",";","X">>,
    <<"B","A","R","=","x">> }

DefArgs(n) ==
    UNION {[1..k -> DefPool] : k \in 0..n}

DefsInit ==
    /\ cli_defs \in DefArgs(MaxDefArgs)
    /\ cli_additional_defs \in DefArgs(MaxDefArgs)
    /\ shader_defs = EmptyMap
    /\ dpc = "call"

DefsIdle ==
    /\ cli_defs = <<>>
    /\ cli_additional_defs = <<>>
    /\ shader_defs = EmptyMap
    /\ dpc = "idle"

GatherDefsReturns ==
    /\ dpc = "call"
    /\ LET r == gather_defs(cli_defs, cli_additional_defs)
       IN /\ r.ok
          /\ shader_defs' = r.defs
    /\ dpc' = "returned"
    /\ UNCHANGED <<cli_defs, cli_additional_defs>>

GatherDefsPanics ==
    /\ dpc = "call"
    /\ ~gather_defs(cli_defs, cli_additional_defs).ok
    /\ dpc' = "panic"
    /\ UNCHANGED <<cli_defs, cli_additional_defs, shader_defs>>

(***************************************************************************)
(* main, "add required imports" (lines 181-235)                            *)
(***************************************************************************)
\* the (reqs, path, language, source) of a registered module; the source
\* text is opaque
Include(rs, path, language) ==
    [reqs |-> rs, path |-> path, language |-> language]

ModuleFile(n) == <<n, ".", "w", "g", "s", "l">>

\* every registry over Names: any set of registered names, each with any
\* requirement set of at most MaxSubreqs names
Registries ==
    {[n \in DOMAIN rs |-> Include(rs[n], ModuleFile(n), "Wgsl")] :
        rs \in UNION {[D -> BoundedSubsets(Names, MaxSubreqs)] : D \in SUBSET Names}}

\* the paths the model draws cli.shader from
ShaderPaths == {
    <<"m", ".", "W", "g", "s", "l">>,
    <<"s", "/", "m", ".", "g", "l", "s", "l">> }

\* composer.contains_module(name)
contains_module(c, name) == name \in c

\* a readiness test that does not look at the composer
all_subreqs_present_mut(subreqs, c) == TRUE

\* subreqs.iter().all(|subreq| composer.contains_module(subreq))
all_subreqs_present(subreqs, c) ==
    \A subreq \in subreqs : contains_module(c, subreq)

\* a filter that lets no sub-requirement through
absent_subreqs_mut(subreqs, c) == {}

\* subreqs.iter().filter(|r| !composer.contains_module(r))
absent_subreqs(subreqs, c) ==
    {r \in subreqs : ~contains_module(c, r)}

\* next_reqs == reqs (line 231)
no_progress(next, pending) == next = pending

ResolveInit ==
    /\ includes \in Registries
    /\ cli_shader \in ShaderPaths
    /\ imports \in BoundedSubsets(Names, MaxImports)
    /\ reqs = imports
    /\ next_reqs = {}
    /\ todo = {}
    /\ composer = {}
    /\ added = <<>>
    /\ addedInRound = {}
    /\ seen = {}
    /\ pc = "while"
    /\ outcome = "running"
    /\ missing_name = ""
    /\ stuck = {}

OutputInit ==
    /\ exit_code = -1
    /\ diagnostic = FALSE
    /\ target = "unopened"
    /\ output_format = "none"
    /\ validated = FALSE
    /\ written = "nothing"

\* while !reqs.is_empty() { let mut next_reqs = HashSet::default(); (198-199)
StartRound ==
    /\ pc = "while"
    /\ reqs # {}
    /\ next_reqs' = {}
    /\ todo' = reqs
    /\ addedInRound' = {}
    /\ pc' = "for"
    /\ UNCHANGED <<includes, cli_shader, imports, reqs, composer, added, seen,
                   outcome, missing_name, stuck>>
    /\ UNCHANGED outputVars
    /\ UNCHANGED <<harvestVars, defsVars>>

\* the loop condition fails: on to "run composer"
ExitLoop ==
    /\ pc = "while"
    /\ reqs = {}
    /\ pc' = "compose"
    /\ UNCHANGED <<includes, cli_shader, imports, reqs, next_reqs, todo,
                   composer, added, addedInRound, seen, outcome, missing_name,
                   stuck>>
    /\ UNCHANGED outputVars
    /\ UNCHANGED <<harvestVars, defsVars>>

\* for req in reqs.iter(): a req the composer already holds (line 201)
SkipPresent(req) ==
    /\ pc = "for"
    /\ req \in todo
    /\ contains_module(composer, req)
    /\ todo' = todo \ {req}
    /\ UNCHANGED <<includes, cli_shader, imports, reqs, next_reqs, composer,
                   added, addedInRound, seen, pc, outcome, missing_name, stuck>>
    /\ UNCHANGED outputVars
    /\ UNCHANGED <<harvestVars, defsVars>>

\* for req in reqs.iter(): a registered req (lines 202-224)
VisitRegistered(req) ==
    /\ pc = "for"
    /\ req \in todo
    /\ ~contains_module(composer, req)
    /\ req \in DOMAIN includes
    /\ LET subreqs == includes[req].reqs
           add == all_subreqs_present(subreqs, composer)
           after == IF add THEN composer \cup {req} ELSE composer
       IN /\ composer' = after
          /\ added' = IF add THEN Append(added, req) ELSE added
          /\ addedInRound' = IF add THEN addedInRound \cup {req} ELSE addedInRound
          /\ next_reqs' = next_reqs \cup absent_subreqs(subreqs, after) \cup {req}
    /\ todo' = todo \ {req}
    /\ UNCHANGED <<includes, cli_shader, imports, reqs, seen, pc, outcome,
                   missing_name, stuck>>
    /\ UNCHANGED outputVars
    /\ UNCHANGED <<harvestVars, defsVars>>

\* a loop body that drops an unregistered req without failing
MissingImport_mut(req) ==
    /\ pc = "for"
    /\ req \in todo
    /\ ~contains_module(composer, req)
    /\ req \notin DOMAIN includes
    /\ todo' = todo \ {req}
    /\ UNCHANGED <<includes, cli_shader, imports, reqs, next_reqs, composer,
                   added, addedInRound, seen, pc, outcome, missing_name, stuck>>
    /\ UNCHANGED outputVars
    /\ UNCHANGED <<harvestVars, defsVars>>

\* for req in reqs.iter(): a req that is not registered (line 226)
MissingImport(req) ==
    /\ pc = "for"
    /\ req \in todo
    /\ ~contains_module(composer, req)
    /\ req \notin DOMAIN includes
    /\ missing_name' = req
    /\ outcome' = "missing_import"
    /\ pc' = "done"
    /\ exit_code' = 101
    /\ UNCHANGED <<includes, cli_shader, imports, reqs, next_reqs, todo,
                   composer, added, addedInRound, seen, stuck>>
    /\ UNCHANGED <<diagnostic, target, output_format, validated, written>>
    /\ UNCHANGED <<harvestVars, defsVars>>

\* if next_reqs == reqs { panic!("circular dependency") } (lines 231-233)
CircularDependency ==
    /\ pc = "for"
    /\ todo = {}
    /\ no_progress(next_reqs, reqs)
    /\ stuck' = next_reqs
    /\ outcome' = "circular_dependency"
    /\ pc' = "done"
    /\ exit_code' = 101
    /\ UNCHANGED <<includes, cli_shader, imports, reqs, next_reqs, todo,
                   composer, added, addedInRound, seen, missing_name>>
    /\ UNCHANGED <<diagnostic, target, output_format, validated, written>>
    /\ UNCHANGED <<harvestVars, defsVars>>

\* reqs = next_reqs (line 234)
EndRound ==
    /\ pc = "for"
    /\ todo = {}
    /\ ~no_progress(next_reqs, reqs)
    /\ seen' = seen \cup reqs
    /\ reqs' = next_reqs
    /\ pc' = "while"
    /\ UNCHANGED <<includes, cli_shader, imports, next_reqs, todo, composer,
                   added, addedInRound, outcome, missing_name, stuck>>
    /\ UNCHANGED outputVars
    /\ UNCHANGED <<harvestVars, defsVars>>

(***************************************************************************)
(* main, "run composer" and "output" (lines 237-343)                       *)
(* make_naga_module, the validator and the encoders are external: each     *)
(* either succeeds or fails.                                               *)
(***************************************************************************)
NoPath   == <<>>        \* cli.output = None
NoFormat == "none"      \* cli.format = None

Str_json == <<"j","s","o","n">>
Str_spv  == <<"s","p","v">>
Str_bin  == <<"b","i","n">>

\* cli.format.unwrap_or_else(...) (lines 262-274)
select_format(format, output) ==
    IF format # NoFormat THEN format
    ELSE IF output = NoPath \/ extension(output) = NoExtension THEN "wgsl"
    ELSE LET ext == to_lowercase(trim(extension(output)))
         IN IF ext = Str_wgsl THEN "wgsl"
            ELSE IF ext \in {Str_frag, Str_vert} THEN "glsl"
            ELSE IF ext = Str_json THEN "naga"
            ELSE IF ext \in {Str_spv, Str_bin} THEN "spv"
            ELSE "wgsl"

\* the values the model draws cli.output and cli.format from
OutputPaths == {NoPath, <<"o", ".", "F", "r", "a", "g">>, <<"o", ".", "t", "x", "t">>}
Formats == {NoFormat, "spv"}

\* the values the model draws cli.defs from in Spec
MainDefs == { << <<"F","O","O">> >>, << <<"B","A","R","=","x">> >> }

\* shader_type(&cli.shader).unwrap_or_else(|| panic!(..)) (lines 241-242)
UnsupportedExtension ==
    /\ pc = "compose"
    /\ shader_type(cli_shader) = "None"
    /\ outcome' = "unsupported_extension"
    /\ exit_code' = 101
    /\ pc' = "done"
    /\ UNCHANGED <<includes, cli_shader, imports, reqs, next_reqs, todo,
                   composer, added, addedInRound, seen, missing_name, stuck>>
    /\ UNCHANGED <<diagnostic, target, output_format, validated, written>>
    /\ UNCHANGED defsVars
    /\ UNCHANGED harvestVars

\* gather_defs(&cli.defs, &cli.additional_defs) panics (line 243)
MalformedDef ==
    /\ pc = "compose"
    /\ shader_type(cli_shader) # "None"
    /\ ~gather_defs(cli_defs, cli_additional_defs).ok
    /\ outcome' = "malformed_def"
    /\ exit_code' = 101
    /\ pc' = "done"
    /\ UNCHANGED <<includes, cli_shader, imports, reqs, next_reqs, todo,
                   composer, added, addedInRound, seen, missing_name, stuck>>
    /\ UNCHANGED <<diagnostic, target, output_format, validated, written>>
    /\ UNCHANGED defsVars
    /\ UNCHANGED harvestVars

\* a failure branch that prints the diagnostic and carries on to the output
ComposeFails_mut ==
    /\ pc = "compose"
    /\ shader_type(cli_shader) # "None"
    /\ gather_defs(cli_defs, cli_additional_defs).ok
    /\ shader_defs' = gather_defs(cli_defs, cli_additional_defs).defs
    /\ diagnostic' = TRUE
    /\ pc' = "output"
    /\ UNCHANGED <<includes, cli_shader, imports, reqs, next_reqs, todo,
                   composer, added, addedInRound, seen, missing_name, stuck,
                   outcome>>
    /\ UNCHANGED <<exit_code, target, output_format, validated, written>>
    /\ UNCHANGED <<cli_defs, cli_additional_defs, dpc>>
    /\ UNCHANGED harvestVars

\* make_naga_module returns Err: print the diagnostic, exit(1) (lines 247-251)
ComposeFails ==
    /\ pc = "compose"
    /\ shader_type(cli_shader) # "None"
    /\ gather_defs(cli_defs, cli_additional_defs).ok
    /\ shader_defs' = gather_defs(cli_defs, cli_additional_defs).defs
    /\ diagnostic' = TRUE
    /\ exit_code' = 1
    /\ outcome' = "composition_failed"
    /\ pc' = "done"
    /\ UNCHANGED <<includes, cli_shader, imports, reqs, next_reqs, todo,
                   composer, added, addedInRound, seen, missing_name, stuck>>
    /\ UNCHANGED <<target, output_format, validated, written>>
    /\ UNCHANGED <<cli_defs, cli_additional_defs, dpc>>
    /\ UNCHANGED harvestVars

\* make_naga_module returns Ok (line 253)
ComposeSucceeds ==
    /\ pc = "compose"
    /\ shader_type(cli_shader) # "None"
    /\ gather_defs(cli_defs, cli_additional_defs).ok
    /\ shader_defs' = gather_defs(cli_defs, cli_additional_defs).defs
    /\ pc' = "output"
    /\ UNCHANGED <<includes, cli_shader, imports, reqs, next_reqs, todo,
                   composer, added, addedInRound, seen, missing_name, stuck,
                   outcome>>
    /\ UNCHANGED outputVars
    /\ UNCHANGED <<cli_defs, cli_additional_defs, dpc>>
    /\ UNCHANGED harvestVars

\* the output stage when the validator rejects the module: the target is
\* open and the format chosen, then unwrap() panics (lines 256-279)
ValidationPanics(output, format) ==
    /\ pc = "output"
    /\ target' = IF output = NoPath THEN "stdout" ELSE "file"
    /\ output_format' = select_format(format, output)
    /\ validated' = TRUE
    /\ outcome' = "validation_failed"
    /\ exit_code' = 101
    /\ pc' = "done"
    /\ UNCHANGED <<includes, cli_shader, imports, reqs, next_reqs, todo,
                   composer, added, addedInRound, seen, missing_name, stuck>>
    /\ UNCHANGED <<diagnostic, written>>
    /\ UNCHANGED defsVars
    /\ UNCHANGED harvestVars

\* the output stage to its end: open the target, choose the format,
\* validate, encode and write (lines 256-343)
WriteOutput(output, format) ==
    /\ pc = "output"
    /\ target' = IF output = NoPath THEN "stdout" ELSE "file"
    /\ output_format' = select_format(format, output)
    /\ validated' = TRUE
    /\ written' = IF output = NoPath THEN "stdout" ELSE "file"
    /\ outcome' = "success"
    /\ exit_code' = 0
    /\ pc' = "done"
    /\ UNCHANGED <<includes, cli_shader, imports, reqs, next_reqs, todo,
                   composer, added, addedInRound, seen, missing_name, stuck>>
    /\ UNCHANGED diagnostic
    /\ UNCHANGED defsVars
    /\ UNCHANGED harvestVars

HarvestIdle ==
    /\ cli_include = <<>>
    /\ declared = EmptyMap
    /\ include_paths = <<>>
    /\ visited = <<>>
    /\ registered = <<>>
    /\ warnings = <<>>
    /\ hpc = "idle"

Init ==
    /\ ResolveInit
    /\ OutputInit
    /\ HarvestIdle
    /\ cli_defs \in MainDefs
    /\ cli_additional_defs = <<>>
    /\ shader_defs = EmptyMap
    /\ dpc = "idle"

Next ==
    \/ StartRound
    \/ ExitLoop
    \/ \E req \in Names : SkipPresent(req)
    \/ \E req \in Names : VisitRegistered(req)
    \/ \E req \in Names : MissingImport(req)
    \/ CircularDependency
    \/ EndRound
    \/ UnsupportedExtension
    \/ MalformedDef
    \/ ComposeFails
    \/ ComposeSucceeds
    \/ \E output \in OutputPaths, format \in Formats : ValidationPanics(output, format)
    \/ \E output \in OutputPaths, format \in Formats : WriteOutput(output, format)

Spec == Init /\ [][Next]_vars

(***************************************************************************)
(* The import graph of a run                                               *)
(***************************************************************************)
\* the names reachable from S through the requirements of registered modules
RECURSIVE Closure(_)
Closure(S) ==
    LET T == S \cup UNION {includes[n].reqs : n \in S \cap DOMAIN includes}
    IN IF T = S THEN S ELSE Closure(T)

\* every name the target shader requires, directly or transitively
Required == Closure(imports)

AbsentRequired == Required \ DOMAIN includes

AllRegistered == AbsentRequired = {}

OnCycle(n) == n \in DOMAIN includes /\ n \in Closure(includes[n].reqs)

CycleReachable == \E n \in Required : OnCycle(n)

Resolving == pc \in {"while", "for"}

(***************************************************************************)
(* Termination of main: a measure that every step lowers.  Across rounds   *)
(* the composer grows, or else the pending names outside it grow, or else  *)
(* pending names already in it are dropped; within a round todo shrinks.   *)
(***************************************************************************)
NumNames == Cardinality(Names)

Stage ==
    CASE pc = "done"    -> 0
      [] pc = "output"  -> 1
      [] pc = "compose" -> 2
      [] pc = "for"     -> 3 + Cardinality(todo)
      [] pc = "while"   -> 4 + NumNames

Rank ==
    LET notComposed == Cardinality(Names \ composer)
        notPending  == Cardinality(Names \ (reqs \ composer))
        satisfied   == Cardinality(reqs \cap composer)
    IN ((notComposed * (NumNames + 1) + notPending) * (NumNames + 1) + satisfied)
           * (NumNames + 5) + Stage

\* one step of the resolution loop
LoopStep ==
    \/ StartRound
    \/ ExitLoop
    \/ \E req \in Names : SkipPresent(req)
    \/ \E req \in Names : VisitRegistered(req)
    \/ \E req \in Names : MissingImport(req)
    \/ CircularDependency
    \/ EndRound

\* the resolution loop ends: every step of main lowers Rank, a natural
\* number, and inside the loop a step is always possible
LoopTerminates ==
    /\ [][Rank' < Rank]_vars
    /\ [](Resolving => ENABLED LoopStep)

(***************************************************************************)
(* Claims about the resolution loop                                        *)
(***************************************************************************)

\* C1: when the import graph reachable from the target shader is acyclic and
\* every reachable name is registered, the resolution loop raises neither a
\* circular-dependency nor a missing-import failure, and once it has left
\* the loop every transitively required module is in the composer.
C1_AcyclicResolves ==
    (~CycleReachable /\ AllRegistered) =>
        /\ outcome \notin {"circular_dependency", "missing_import"}
        /\ (~Resolving => Required \subseteq composer)

\* C2: every module is added to the composer only when all of its own
\* requirements are already in it, and no name is added twice: the add
\* calls so far list each name once, after all of its requirements, and the
\* composer's module set is closed under "requirements of".
C2_AddedAfterRequirements ==
    /\ \A i \in 1..Len(added) :
          /\ added[i] \in DOMAIN includes
          /\ includes[added[i]].reqs \subseteq {added[j] : j \in 1..(i - 1)}
    /\ \A i, j \in 1..Len(added) : i # j => added[i] # added[j]
    /\ composer = Range(added)
    /\ \A n \in composer : includes[n].reqs \subseteq composer

\* a module with a requirement was added, after that requirement
C2_Witness ==
    \E i \in 1..Len(added) : includes[added[i]].reqs # {}

\* module a requires exactly b, b requires exactly a, and the target imports
\* a and/or b
MinimalCycle(a, b) ==
    /\ a # b
    /\ {a, b} \subseteq DOMAIN includes
    /\ includes[a].reqs = {b}
    /\ includes[b].reqs = {a}
    /\ imports # {}
    /\ imports \subseteq {a, b}

\* C3: when every reachable name is registered and a requirement cycle is
\* reachable from the target's imports, the loop ends, and ends in the
\* circular-dependency failure, never in success or another failure; in the
\* minimal two-module cycle the reported set is exactly the two modules and
\* nothing was added to the composer.
C3_CycleFails ==
    /\ [](CycleReachable /\ AllRegistered =>
            /\ outcome \in {"running", "circular_dependency"}
            /\ Resolving \/ outcome = "circular_dependency")
    /\ LoopTerminates
    /\ [](\A a, b \in Names :
            MinimalCycle(a, b) /\ outcome = "circular_dependency" =>
                stuck = {a, b} /\ composer = {})

\* the minimal cycle has failed, entered through one of its two modules
C3_Witness ==
    \E a, b \in Names :
        /\ MinimalCycle(a, b)
        /\ imports = {a}
        /\ outcome = "circular_dependency"

\* C4: when a name reachable from the target's imports is not registered,
\* resolution ends in the missing-import failure and in nothing else; the
\* name it reports is a reachable unregistered name (the only one, when there
\* is one) that is pending in the failing round and was pending in no
\* earlier round; nothing runs after the failure.
C4_MissingImportFails ==
    /\ [](AbsentRequired # {} =>
            /\ outcome \in {"running", "missing_import"}
            /\ Resolving \/ outcome = "missing_import")
    /\ LoopTerminates
    /\ [](outcome = "missing_import" =>
            /\ missing_name \in AbsentRequired
            /\ missing_name \in reqs
            /\ AbsentRequired \cap seen = {}
            /\ pc = "done")
    /\ [][outcome = "missing_import" => FALSE]_vars

\* a missing import two levels below the target was reported, with a module
\* registered and pending alongside it
C4_Witness ==
    /\ outcome = "missing_import"
    /\ missing_name \notin imports
    /\ seen # {}

\* the target shader's extension is none of wgsl, vert, frag
UnsupportedTarget ==
    \/ extension(cli_shader) = NoExtension
    \/ to_lowercase(extension(cli_shader)) \notin {Str_wgsl, Str_vert, Str_frag}

\* C5 as stated: with an unsupported target extension the run fails with the
\* extension diagnostic before any resolution step: no import is looked up,
\* no module is added, and no resolution failure is raised instead.
C5_ExtensionFailsBeforeResolution ==
    UnsupportedTarget =>
        /\ composer = {}
        /\ outcome \in {"running", "unsupported_extension"}

\* C5 as amended: with an unsupported target extension the run never gets to
\* the composer or to the output; the resolution loop runs first, so the run
\* ends in the extension diagnostic only once the loop has succeeded, with
\* every required module added, and otherwise in the loop's own
\* missing-import or circular-dependency failure.
C5_ExtensionFailsAfterResolution ==
    UnsupportedTarget =>
        /\ outcome \in {"running", "unsupported_extension",
                        "missing_import", "circular_dependency"}
        /\ pc \in {"while", "for", "compose", "done"}
        /\ (pc = "done" => outcome # "running" /\ exit_code = 101)
        /\ (outcome = "unsupported_extension" =>
              reqs = {} /\ Required \subseteq composer)
        /\ ~diagnostic
        /\ shader_defs = EmptyMap
        /\ target = "unopened"
        /\ output_format = "none"
        /\ ~validated
        /\ written = "nothing"

\* the extension diagnostic was raised after modules had been added
C5_Witness ==
    /\ UnsupportedTarget
    /\ outcome = "unsupported_extension"
    /\ composer # {}

\* C8: once the composer's diagnostic has been printed the run has ended
\* with status 1 and the output stage has not begun: no target opened, no
\* format chosen, no validation, nothing written.
C8_ComposeFailureWritesNothing ==
    diagnostic =>
        /\ pc = "done"
        /\ outcome = "composition_failed"
        /\ exit_code = 1
        /\ target = "unopened"
        /\ output_format = "none"
        /\ ~validated
        /\ written = "nothing"

\* a composition failure after modules were added
C8_Witness ==
    /\ diagnostic
    /\ outcome = "composition_failed"
    /\ composer # {}

\* C9: a round whose NextPending equals its non-empty PendingRequirements
\* added no module, so a round that added one never ends in the
\* circular-dependency failure.
C9_CircularOnlyWithoutProgress ==
    /\ (pc = "for" /\ todo = {} /\ reqs # {} /\ next_reqs = reqs => addedInRound = {})
    /\ (outcome = "circular_dependency" => addedInRound = {})

(***************************************************************************)
(* gather_paths and main, "gather modules" (lines 92-101, 150-179)         *)
(* A PathBuf is the string it was made from.  The file system is a fixed   *)
(* finite tree, keyed by the path with its "." components removed:         *)
(*     .        d/                                                         *)
(*     d        a.wgsl  s/  n.txt                                          *)
(*     d/s      b.FRAG                                                     *)
(*     /u       a directory that cannot be read                            *)
(***************************************************************************)
P_dot   == <<".">>
P_d     == <<"d">>
P_s     == <<"s">>
P_a     == <<"a", ".", "w", "g", "s", "l">>
P_b     == <<"b", ".", "F", "R", "A", "G">>
P_n     == <<"n", ".", "t", "x", "t">>
P_x     == <<"x", ".", "w", "g", "s", "l">>
P_u     == <<"/", "u">>

\* Path::join
join(dir, name) == dir \o <<"/">> \o name

RECURSIVE join_all(_)
join_all(parts) ==
    IF parts = <<>> THEN <<>>
    ELSE IF Len(parts) = 1 THEN parts[1]
    ELSE join(parts[1], join_all(Tail(parts)))

\* the file a path names: the path without its "." components
Canon(path) ==
    join_all(SelectSeq(split(path, "/"), LAMBDA part : part # P_dot))

Cwd == <<>>

DirEntries ==
    [dir \in {Cwd, P_d, join(P_d, P_s), P_u} |->
        IF dir = Cwd THEN {P_d}
        ELSE IF dir = P_d THEN {P_a, P_s, P_n}
        ELSE IF dir = join(P_d, P_s) THEN {P_b}
        ELSE {}]

Dirs == DOMAIN DirEntries

UnreadableDirs == {P_u}

Files == {join(P_d, P_a), join(P_d, P_n), join(join(P_d, P_s), P_b)}

\* Path::is_dir
is_dir(path) == Canon(path) \in Dirs

\* the files the harvester recognises
ModuleFiles == {f \in Files : input_language(f) # "None"}

\* #define_import_path names a file may declare; NoName when it declares none
NoName == <<>>
DeclaredNames == {NoName, <<"m">>}

\* the import requirements get_preprocessor_data finds in a file
file_reqs(file) == IF file = join(P_d, P_a) THEN {<<"m">>} ELSE {}

\* format!("\"{}\"", path.to_string_lossy())
quoted(path) == <<"\"">> \o path \o <<"\"">>

\* gather_paths
gather_paths(args) ==
    IF args = <<>> THEN <<P_dot>>
    ELSE flat_split(args, ";")

\* the strings the model draws cli.include from
IncludePool == {
    P_d,
    join(P_d, P_s) \o <<";">> \o P_d,
    join(P_d, P_a),
    P_x,
    P_u }

IncludeArgs(n) == UNION {[1..k -> IncludePool] : k \in 0..n}

\* listings that leave one entry out
Orders_mut(S) == {o \in [1..(Cardinality(S) - 1) -> S] : Cardinality(Range(o)) = Len(o)}

\* every order in which read_dir may list the entries
Orders(S) == {o \in [1..Cardinality(S) -> S] : Range(o) = S}

Front(q) == SubSeq(q, 1, Len(q) - 1)
Last(q) == q[Len(q)]

\* includes.contains_key(&name)
contains_key(map, k) == k \in DOMAIN map

ResolveIdle ==
    /\ cli_shader = <<>>
    /\ imports = {}
    /\ reqs = {}
    /\ next_reqs = {}
    /\ todo = {}
    /\ composer = {}
    /\ added = <<>>
    /\ addedInRound = {}
    /\ seen = {}
    /\ pc = "idle"
    /\ outcome = "running"
    /\ missing_name = ""
    /\ stuck = {}

HarvestInit ==
    /\ cli_include \in IncludeArgs(MaxRoots)
    /\ include_paths = gather_paths(cli_include)
    /\ declared \in [ModuleFiles -> DeclaredNames]
    /\ includes = EmptyMap
    /\ visited = <<>>
    /\ registered = <<>>
    /\ warnings = <<>>
    /\ hpc = "gather"
    /\ ResolveIdle
    /\ OutputInit
    /\ DefsIdle

harvestOthers == <<resolveVars, outputVars, defsVars, cli_include, declared>>

\* while let Some(path) = include_paths.pop(): a directory (lines 155-159)
ExpandDirectory ==
    /\ hpc = "gather"
    /\ include_paths # <<>>
    /\ LET path == Last(include_paths)
       IN /\ is_dir(path)
          /\ Canon(path) \notin UnreadableDirs
          /\ \E order \in Orders(DirEntries[Canon(path)]) :
                include_paths' = Front(include_paths) \o
                    [i \in 1..Len(order) |-> join(path, order[i])]
          /\ visited' = Append(visited, path)
    /\ UNCHANGED <<includes, registered, warnings, hpc>>
    /\ UNCHANGED harvestOthers

\* read_dir fails (line 157)
PanicReadDir ==
    /\ hpc = "gather"
    /\ include_paths # <<>>
    /\ is_dir(Last(include_paths))
    /\ Canon(Last(include_paths)) \in UnreadableDirs
    /\ include_paths' = Front(include_paths)
    /\ visited' = Append(visited, Last(include_paths))
    /\ hpc' = "panic_dir"
    /\ UNCHANGED <<includes, registered, warnings>>
    /\ UNCHANGED harvestOthers

\* input_language(&path) is None: continue (lines 161-163)
SkipFile ==
    /\ hpc = "gather"
    /\ include_paths # <<>>
    /\ LET path == Last(include_paths)
       IN /\ ~is_dir(path)
          /\ input_language(path) = "None"
          /\ visited' = Append(visited, path)
    /\ include_paths' = Front(include_paths)
    /\ UNCHANGED <<includes, registered, warnings, hpc>>
    /\ UNCHANGED harvestOthers

\* read_to_string fails (line 166)
PanicReadFile ==
    /\ hpc = "gather"
    /\ include_paths # <<>>
    /\ LET path == Last(include_paths)
       IN /\ ~is_dir(path)
          /\ input_language(path) # "None"
          /\ Canon(path) \notin Files
          /\ visited' = Append(visited, path)
    /\ include_paths' = Front(include_paths)
    /\ hpc' = "panic_file"
    /\ UNCHANGED <<includes, registered, warnings>>
    /\ UNCHANGED harvestOthers

\* a module file: name it, warn on a duplicate, insert (lines 167-176)
RegisterModule ==
    /\ hpc = "gather"
    /\ include_paths # <<>>
    /\ LET path == Last(include_paths)
           file == Canon(path)
       IN /\ ~is_dir(path)
          /\ input_language(path) # "None"
          /\ file \in Files
          /\ LET name == IF declared[file] # NoName THEN declared[file]
                         ELSE quoted(path)
             IN /\ warnings' = IF contains_key(includes, name)
                               THEN Append(warnings, name)
                               ELSE warnings
                /\ includes' = insert(includes, name,
                       Include(file_reqs(file), path, input_language(path)))
                /\ registered' = Append(registered, [path |-> path, name |-> name])
          /\ visited' = Append(visited, path)
    /\ include_paths' = Front(include_paths)
    /\ UNCHANGED hpc
    /\ UNCHANGED harvestOthers

\* include_paths.pop() is None: the loop ends
HarvestDone ==
    /\ hpc = "gather"
    /\ include_paths = <<>>
    /\ hpc' = "done"
    /\ UNCHANGED <<includes, include_paths, visited, registered, warnings>>
    /\ UNCHANGED harvestOthers

HarvestNext ==
    \/ ExpandDirectory
    \/ PanicReadDir
    \/ SkipFile
    \/ PanicReadFile
    \/ RegisterModule
    \/ HarvestDone

HarvestSpec == HarvestInit /\ [][HarvestNext]_vars

(***************************************************************************)
(* Claims about the harvester                                              *)
(***************************************************************************)
\* the search roots after gather_paths
Roots == gather_paths(cli_include)

\* file or directory f lies in directory dir
Under(dir, f) ==
    \/ dir = Cwd /\ f # Cwd /\ Head(f) # "/"
    \/ /\ Len(f) > Len(dir) + 1
       /\ SubSeq(f, 1, Len(dir) + 1) = dir \o <<"/">>

\* the files the paths of a sequence name
CanonAll(paths) == [i \in 1..Len(paths) |-> Canon(paths[i])]

\* root (a file) is f, or a directory above it
Covers(root, f) ==
    \/ root = f
    \/ root \in Dirs /\ Under(root, f)

\* the number of positions of files, a sequence, that are f
Count(files, f) == Cardinality({i \in 1..Len(files) : files[i] = f})

\* the number of positions of roots that cover f
Coverage(roots, f) == Cardinality({i \in 1..Len(roots) : Covers(roots[i], f)})

\* the positions of registered whose name an earlier position registered
Duplicates ==
    {i \in 1..Len(registered) :
        \E j \in 1..(i - 1) : registered[j].name = registered[i].name}

\* the last position of registered that carries name
LastOf(name) ==
    CHOOSE i \in 1..Len(registered) :
        /\ registered[i].name = name
        /\ \A j \in (i + 1)..Len(registered) : registered[j].name # name

\* the harvest loop ends: every iteration pops one path, and the paths
\* popped never outnumber what the roots cover, every root covering at most
\* the whole tree
HarvestTerminates ==
    /\ [][Len(visited') = Len(visited) + 1 \/ (hpc = "gather" /\ hpc' = "done")]_vars
    /\ [](Len(visited) <= Len(Roots) * Cardinality(Files \cup Dirs))

\* C6: the registry maps each resolved name to the file processed last among
\* those resolving to it, one duplicate warning is emitted per processed file
\* whose name was already registered, and a warning does not stop the
\* harvest.
C6_LastRegistrationWins ==
    /\ [](DOMAIN includes = {registered[i].name : i \in 1..Len(registered)})
    /\ [](\A name \in DOMAIN includes :
            includes[name].path = registered[LastOf(name)].path)
    /\ [](Len(warnings) = Cardinality(Duplicates))
    /\ [](\A name \in Range(warnings) :
            \E i \in Duplicates : registered[i].name = name)
    /\ [][Len(warnings') > Len(warnings) => hpc' = "gather"]_vars

\* two different files declared the same name: the second is registered and
\* one warning was emitted
C6_Witness ==
    /\ hpc = "done"
    /\ Len(registered) = 2
    /\ Canon(registered[1].path) # Canon(registered[2].path)
    /\ registered[1].name = registered[2].name
    /\ Len(warnings) = 1
    /\ includes[registered[2].name].path = registered[2].path

\* C10 as stated: every file under the roots is processed exactly once, for
\* every list of roots: no file is processed twice, and when the loop has
\* ended every file under a root has been processed.
C10_EveryFileOnce ==
    LET popped == CanonAll(visited)
        roots == CanonAll(Roots)
    IN \A f \in Files :
          /\ Count(popped, f) <= 1
          /\ (hpc = "done" /\ Coverage(roots, f) > 0 => Count(popped, f) = 1)

\* the counts of the amended claim, in every state
OncePerRoot ==
    LET popped == CanonAll(visited)
        roots == CanonAll(Roots)
        inserted == CanonAll([i \in 1..Len(registered) |-> registered[i].path])
    IN /\ \A f \in Files \cup Dirs : Count(popped, f) <= Coverage(roots, f)
       /\ \A f \in Files : Count(inserted, f) <= Count(popped, f)
       /\ hpc = "done" =>
             /\ include_paths = <<>>
             /\ \A f \in Files :
                   /\ Count(popped, f) = Coverage(roots, f)
                   /\ f \in ModuleFiles => Count(inserted, f) = Coverage(roots, f)

\* C10 as amended: the loop ends, with an empty stack unless a read failed,
\* and has then processed every file once for each listed root that is the
\* file or a directory above it, in every enumeration order: once when the
\* roots neither repeat nor nest, and again for every further root that
\* covers it.
C10_EveryFileOncePerRoot ==
    /\ HarvestTerminates
    /\ []OncePerRoot

\* a harvest over nested roots has ended: the file below both was processed
\* twice, the file below one of them once
C10_Witness ==
    /\ hpc = "done"
    /\ \E f \in Files : Count(CanonAll(visited), f) = 2
    /\ \E f \in Files : Count(CanonAll(visited), f) = 1

(***************************************************************************)
(* gather_defs as a function of cli.defs and cli.additional_defs           *)
(***************************************************************************)
DefsSpecInit ==
    /\ DefsInit
    /\ includes = EmptyMap
    /\ HarvestIdle
    /\ ResolveIdle
    /\ OutputInit

DefsNext ==
    \/ GatherDefsReturns /\ UNCHANGED <<includes, harvestVars, resolveVars, outputVars>>
    \/ GatherDefsPanics /\ UNCHANGED <<includes, harvestVars, resolveVars, outputVars>>

DefsSpec == DefsSpecInit /\ [][DefsNext]_vars

Str_FOO == <<"F","O","O">>
Str_BAR == <<"B","A","R">>

\* the text of entry def before its first '=', all of it when it has none
NameOf(def) ==
    IF \E i \in 1..Len(def) : def[i] = "="
    THEN SubSeq(def, 1, (CHOOSE i \in 1..Len(def) :
                            def[i] = "=" /\ \A j \in 1..(i - 1) : def[j] # "=") - 1)
    ELSE def

IsBare(def) == \A i \in 1..Len(def) : def[i] # "="

\* the last position of entries that defines name
LastDef(entries, name) ==
    CHOOSE i \in 1..Len(entries) :
        /\ NameOf(entries[i]) = name
        /\ \A j \in (i + 1)..Len(entries) : NameOf(entries[j]) # name

\* C7: gather_defs binds each name to the value of its last occurrence among
\* the ';'-split entries of base followed by those of override: an override
\* name takes its override value, a name only in base keeps its base value,
\* a bare name is Bool(true); base ["FOO", "BAR=1"] with override ["BAR=2u"]
\* gives exactly {FOO: Bool(true), BAR: UInt(2)}.
C7_LastOccurrenceWins ==
    dpc = "returned" =>
        LET base == flat_split(cli_defs, ";")
            override == flat_split(cli_additional_defs, ";")
            entries == base \o override
        IN /\ DOMAIN shader_defs = {NameOf(entries[i]) : i \in 1..Len(entries)}
           /\ \A name \in DOMAIN shader_defs :
                 LET def == entries[LastDef(entries, name)]
                 IN /\ shader_defs[name] = def_value(def)
                    /\ IsBare(def) => shader_defs[name] = Bool(TRUE)
           /\ \A i \in 1..Len(override) :
                 LET name == NameOf(override[i])
                 IN shader_defs[name] =
                        def_value(override[LastDef(override, name)])
           /\ \A i \in 1..Len(base) :
                 LET name == NameOf(base[i])
                 IN (\A j \in 1..Len(override) : NameOf(override[j]) # name) =>
                        shader_defs[name] = def_value(base[LastDef(base, name)])
           /\ (/\ cli_defs = <<Str_FOO, Str_BAR \o <<"=", "1">> >>
               /\ cli_additional_defs = <<Str_BAR \o <<"=", "2", "u">> >>) =>
                  shader_defs = [n \in {Str_FOO, Str_BAR} |->
                                    IF n = Str_FOO THEN Bool(TRUE) ELSE UInt(2)]

\* gather_defs has returned for base ["FOO", "BAR=1"], override ["BAR=2u"]
C7_Witness ==
    /\ dpc = "returned"
    /\ cli_defs = <<Str_FOO, Str_BAR \o <<"=", "1">> >>
    /\ cli_additional_defs = <<Str_BAR \o <<"=", "2", "u">> >>
    /\ shader_defs[Str_BAR] = UInt(2)

====
